---- MODULE Spec2Model ----
(***************************************************************************)
(* The duplicate-tracking index (tracker.rs), the update planner and the   *)
(* action executor (handler.rs, marker.rs) and the orchestration of the    *)
(* main loop and the background task (main.rs) of the Telegram duplicate   *)
(* message checker.                                                        *)
(*                                                                         *)
(* A HashMap is a function whose DOMAIN is its key set, a Vec a sequence,  *)
(* a HashSet a set, an Option a set with at most one element.              *)
(***************************************************************************)
EXTENDS Integers, Sequences, FiniteSets, TLC

\* ------------------------------------------------------------------ bounds

\* The clock (epoch_secs) runs over 0..MaxTime.
MaxTime == 1

\* register_forward is offered while fewer than MaxTracked forwards are
\* recorded over all originals; the code has no such limit.
MaxTracked == 2

\* A MarkForwards action handed to the executor holds at most MaxBatch forwards.
MaxBatch == 2

\* The startup enumeration yields at most MaxDialogs dialogs.
MaxDialogs == 1

\* ----------------------------------------------------------- input domains

\* OriginalMessageId values of the inbound events: those of the tracker's tests.
PeerIds == {1}
OriginalMsgIds == {100, 101}
OriginalMessageId == [peer_id : PeerIds, message_id : OriginalMsgIds]

\* ForwardLocation values of the inbound events: those of the tracker's tests.
\* MsgIds are also the max_id values of the read-history events.
ChatIds == {10, 20}
MsgIds == {50, 60}
ForwardLocation == [chat_id : ChatIds, message_id : MsgIds]

\* max_age_secs arguments of cleanup.
MaxAges == 0..MaxTime

\* ------------------------------------------------------------------ helpers

\* HashMap::insert / entry().or_insert on a map held as a function.
Put(m, k, v) == [x \in (DOMAIN m) \cup {k} |-> IF x = k THEN v ELSE m[x]]

\* HashMap::remove.
Drop(m, k) == [x \in (DOMAIN m) \ {k} |-> m[x]]

\* HashMap::default().
EmptyMap == [x \in {} |-> 0]

\* Vec::contains.
Contains(s, e) == \E i \in 1..Len(s) : s[i] = e

\* The elements of a Vec.
Range(s) == {s[i] : i \in 1..Len(s)}

\* All enumerations of a finite set: the orders a HashMap may iterate in.
Orders(S) ==
    {s \in [1..Cardinality(S) -> S] : \A i, j \in 1..Cardinality(S) : s[i] = s[j] => i = j}

\* DuplicateTracker::default().
EmptyTracker ==
    [originals |-> EmptyMap, forward_index |-> EmptyMap, read_originals |-> {},
     first_seen |-> EmptyMap, chat_index |-> EmptyMap]

\* ------------------------------------------------------------ the tracker

\* The chat_index entry test of register_forward: some (mid, _) has this mid.
HasMsgId(entries, message_id) == \E i \in 1..Len(entries) : entries[i][1] = message_id

\* register_forward without the `!forwards.contains(&forward)` test: every call pushes.
register_forward_always_push(t, original, forward, now) ==
    LET fs == IF original \in DOMAIN t.first_seen
                THEN t.first_seen
                ELSE Put(t.first_seen, original, now)
        forwards == IF original \in DOMAIN t.originals THEN t.originals[original] ELSE <<>>
        entries == IF forward.chat_id \in DOMAIN t.chat_index
                     THEN t.chat_index[forward.chat_id]
                     ELSE <<>>
        entries2 == IF HasMsgId(entries, forward.message_id)
                      THEN entries
                      ELSE Append(entries, <<forward.message_id, original>>)
    IN  [originals |-> Put(t.originals, original, Append(forwards, forward)),
         forward_index |-> Put(t.forward_index, forward, original),
         read_originals |-> t.read_originals,
         first_seen |-> fs,
         chat_index |-> Put(t.chat_index, forward.chat_id, entries2)]

\* register_forward with first_seen.insert in place of entry().or_insert:
\* every call stamps the original with the current time.
register_forward_refreshes(t, original, forward, now) ==
    LET forwards == IF original \in DOMAIN t.originals THEN t.originals[original] ELSE <<>>
        forwards2 == IF Contains(forwards, forward) THEN forwards ELSE Append(forwards, forward)
        entries == IF forward.chat_id \in DOMAIN t.chat_index
                     THEN t.chat_index[forward.chat_id]
                     ELSE <<>>
        entries2 == IF HasMsgId(entries, forward.message_id)
                      THEN entries
                      ELSE Append(entries, <<forward.message_id, original>>)
    IN  [originals |-> Put(t.originals, original, forwards2),
         forward_index |-> Put(t.forward_index, forward, original),
         read_originals |-> t.read_originals,
         first_seen |-> Put(t.first_seen, original, now),
         chat_index |-> Put(t.chat_index, forward.chat_id, entries2)]

\* DuplicateTracker::register_forward: the tracker after the call.
register_forward(t, original, forward, now) ==
    LET fs == IF original \in DOMAIN t.first_seen
                THEN t.first_seen
                ELSE Put(t.first_seen, original, now)
        forwards == IF original \in DOMAIN t.originals THEN t.originals[original] ELSE <<>>
        forwards2 == IF Contains(forwards, forward) THEN forwards ELSE Append(forwards, forward)
        entries == IF forward.chat_id \in DOMAIN t.chat_index
                     THEN t.chat_index[forward.chat_id]
                     ELSE <<>>
        entries2 == IF HasMsgId(entries, forward.message_id)
                      THEN entries
                      ELSE Append(entries, <<forward.message_id, original>>)
    IN  [originals |-> Put(t.originals, original, forwards2),
         forward_index |-> Put(t.forward_index, forward, original),
         read_originals |-> t.read_originals,
         first_seen |-> fs,
         chat_index |-> Put(t.chat_index, forward.chat_id, entries2)]

\* The value register_forward returns: the function has no return type.
register_forward_ret(t, original, forward) == "unit"

\* mark_original_read without the insert into read_originals.
mark_original_read_no_insert(t, original) == t

\* DuplicateTracker::mark_original_read: the tracker after the call.
mark_original_read(t, original) ==
    [t EXCEPT !.read_originals = t.read_originals \cup {original}]

\* DuplicateTracker::mark_original_read: the Vec it returns.
mark_original_read_ret(t, original) ==
    IF original \in DOMAIN t.originals THEN t.originals[original] ELSE <<>>

\* DuplicateTracker::lookup_forward, as an Option.
lookup_forward(t, forward) ==
    IF forward \in DOMAIN t.forward_index THEN {t.forward_index[forward]} ELSE {}

\* DuplicateTracker::is_original_read.
is_original_read(t, original) == original \in t.read_originals

\* The loop of find_read_originals_in_chat over the entries of one chat.
RECURSIVE FindLoop(_, _, _, _)
FindLoop(t, entries, max_id, i) ==
    IF i > Len(entries) THEN <<>>
    ELSE LET rest == FindLoop(t, entries, max_id, i + 1)
         IN  IF entries[i][1] <= max_id /\ entries[i][2] \notin t.read_originals
               THEN <<entries[i][2]>> \o rest
               ELSE rest

\* DuplicateTracker::find_read_originals_in_chat.
find_read_originals_in_chat(t, chat_id, max_id) ==
    IF chat_id \notin DOMAIN t.chat_index THEN <<>>
    ELSE FindLoop(t, t.chat_index[chat_id], max_id, 1)

\* Vec::retain(|(mid, _)| *mid != message_id).
RECURSIVE Retain(_, _)
Retain(entries, message_id) ==
    IF entries = <<>> THEN <<>>
    ELSE IF Head(entries)[1] /= message_id
           THEN <<Head(entries)>> \o Retain(Tail(entries), message_id)
           ELSE Retain(Tail(entries), message_id)

\* The body of cleanup's inner loop for one forward of a purged original.
PurgeForward(t, fwd) ==
    LET fi == IF fwd \in DOMAIN t.forward_index THEN Drop(t.forward_index, fwd) ELSE t.forward_index
        ci == IF fwd.chat_id \in DOMAIN t.chat_index
                THEN LET kept == Retain(t.chat_index[fwd.chat_id], fwd.message_id)
                     IN  IF kept = <<>>
                           THEN Drop(t.chat_index, fwd.chat_id)
                           ELSE Put(t.chat_index, fwd.chat_id, kept)
                ELSE t.chat_index
    IN  [t EXCEPT !.forward_index = fi, !.chat_index = ci]

\* cleanup's inner loop: for fwd in &forwards.
RECURSIVE PurgeForwards(_, _, _)
PurgeForwards(t, forwards, i) ==
    IF i > Len(forwards) THEN t
    ELSE PurgeForwards(PurgeForward(t, forwards[i]), forwards, i + 1)

\* The outer loop body without `self.read_originals.remove(orig)`.
PurgeOriginal_keeps_read(t, orig) ==
    LET t1 == IF orig \in DOMAIN t.originals
                THEN PurgeForwards([t EXCEPT !.originals = Drop(t.originals, orig)],
                                   t.originals[orig], 1)
                ELSE t
    IN  [t1 EXCEPT !.first_seen = IF orig \in DOMAIN t1.first_seen
                                    THEN Drop(t1.first_seen, orig)
                                    ELSE t1.first_seen]

\* The outer loop body without `self.first_seen.remove(orig)`.
PurgeOriginal_keeps_first_seen(t, orig) ==
    LET t1 == IF orig \in DOMAIN t.originals
                THEN PurgeForwards([t EXCEPT !.originals = Drop(t.originals, orig)],
                                   t.originals[orig], 1)
                ELSE t
    IN  [t1 EXCEPT !.read_originals = t1.read_originals \ {orig}]

\* The body of cleanup's outer loop for one old original.
PurgeOriginal(t, orig) ==
    LET t1 == IF orig \in DOMAIN t.originals
                THEN PurgeForwards([t EXCEPT !.originals = Drop(t.originals, orig)],
                                   t.originals[orig], 1)
                ELSE t
    IN  [t1 EXCEPT !.read_originals = t1.read_originals \ {orig},
                   !.first_seen = IF orig \in DOMAIN t1.first_seen
                                    THEN Drop(t1.first_seen, orig)
                                    ELSE t1.first_seen]

\* cleanup's outer loop: for orig in &old_originals.
RECURSIVE PurgeOriginals(_, _, _)
PurgeOriginals(t, old_originals, i) ==
    IF i > Len(old_originals) THEN t
    ELSE PurgeOriginals(PurgeOriginal(t, old_originals[i]), old_originals, i + 1)

\* epoch_secs().saturating_sub(max_age_secs) on u64.
Cutoff(now, max_age_secs) == IF max_age_secs >= now THEN 0 ELSE now - max_age_secs

\* The keys cleanup collects from first_seen: those with ts < cutoff.
OldOriginals(t, cutoff) == {o \in DOMAIN t.first_seen : t.first_seen[o] < cutoff}

\* Iterator::filter on a Vec, keeping the elements in `keep`.
RECURSIVE Filter(_, _)
Filter(s, keep) ==
    IF s = <<>> THEN <<>>
    ELSE IF Head(s) \in keep
           THEN <<Head(s)>> \o Filter(Tail(s), keep)
           ELSE Filter(Tail(s), keep)

\* DuplicateTracker::cleanup; `iter` is the order first_seen.iter() yields its keys in.
cleanup(t, now, max_age_secs, iter) ==
    LET cutoff == Cutoff(now, max_age_secs)
        old_originals == Filter(iter, OldOriginals(t, cutoff))
    IN  PurgeOriginals(t, old_originals, 1)

\* cleanup's count: old_originals.len().
cleanup_count(t, now, max_age_secs) ==
    Cardinality(OldOriginals(t, Cutoff(now, max_age_secs)))

\* The loop of rebuild_chat_index over forward_index in the order `order`.
RECURSIVE RebuildLoop(_, _, _, _)
RebuildLoop(t, chat_index, order, i) ==
    IF i > Len(order) THEN chat_index
    ELSE LET fwd == order[i]
             entries == IF fwd.chat_id \in DOMAIN chat_index THEN chat_index[fwd.chat_id] ELSE <<>>
         IN  RebuildLoop(t,
                 Put(chat_index, fwd.chat_id,
                     Append(entries, <<fwd.message_id, t.forward_index[fwd]>>)),
                 order, i + 1)

\* rebuild_chat_index doing nothing: chat_index stays as deserialized.
rebuild_chat_index_skipped(t, order) == t

\* DuplicateTracker::rebuild_chat_index, forward_index iterated in `order`.
rebuild_chat_index(t, order) ==
    [t EXCEPT !.chat_index = RebuildLoop(t, EmptyMap, order, 1)]

\* map_as_vec::serialize: the pairs of a map, in some iteration order.
RECURSIVE MapAsVec(_)
MapAsVec(m) ==
    IF DOMAIN m = {} THEN <<>>
    ELSE LET k == CHOOSE x \in DOMAIN m : TRUE
         IN  <<<<k, m[k]>>>> \o MapAsVec(Drop(m, k))

\* map_as_vec::deserialize: vec.into_iter().collect(), a later pair replacing an earlier one.
RECURSIVE VecAsMap(_)
VecAsMap(vec) ==
    IF vec = <<>> THEN EmptyMap
    ELSE LET front == VecAsMap(SubSeq(vec, 1, Len(vec) - 1))
             pair == vec[Len(vec)]
         IN  Put(front, pair[1], pair[2])

\* map_as_vec::serialize with map.iter() yielding the keys in `order`.
MapAsVecIn(m, order) == [i \in 1..Len(order) |-> <<order[i], m[order[i]]>>]

\* serde's Serialize for DuplicateTracker: chat_index is skipped.
Serialize(t) ==
    [originals |-> MapAsVec(t.originals),
     forward_index |-> MapAsVec(t.forward_index),
     read_originals |-> t.read_originals,
     first_seen |-> MapAsVec(t.first_seen)]

\* serde's Deserialize for DuplicateTracker: chat_index starts at its default.
Deserialize(data) ==
    [originals |-> VecAsMap(data.originals),
     forward_index |-> VecAsMap(data.forward_index),
     read_originals |-> data.read_originals,
     first_seen |-> VecAsMap(data.first_seen),
     chat_index |-> EmptyMap]

\* DuplicateTracker::load of the file contents `data`; forward_index iterated in `order`.
load(data, order) == rebuild_chat_index(Deserialize(data), order)

\* ------------------------------------------------------------ the planner

\* Action::None.
ActionNone == [kind |-> "None"]

\* Action::CachePeer.
CachePeer(chat_id, peer_ref, name) ==
    [kind |-> "CachePeer", chat_id |-> chat_id, peer_ref |-> peer_ref, name |-> name]

\* Action::MarkForwards.
MarkForwards(forwards) == [kind |-> "MarkForwards", forwards |-> forwards]

\* A forward-origin header: from_id and channel_post are Options.
FwdHeader == [from_id : {{}} \cup {{p} : p \in PeerIds},
              channel_post : {{}} \cup {{m} : m \in OriginalMsgIds}]

\* A new-message update: forward_header(), peer_id(), id(), peer().name(), peer_ref().
Message ==
    [fwd_header : {{}} \cup {{h} : h \in FwdHeader},
     chat_id : ChatIds,
     id : MsgIds,
     peer_name : {{}, {"title"}},
     peer_ref : BOOLEAN]

\* extract_original giving up only when the header lacks both identifiers,
\* a missing one read as 0.
extract_original_lacks_both(fwd) ==
    IF fwd.from_id = {} /\ fwd.channel_post = {} THEN {}
    ELSE {[peer_id |-> IF fwd.from_id = {} THEN 0 ELSE CHOOSE p \in fwd.from_id : TRUE,
           message_id |-> IF fwd.channel_post = {} THEN 0
                          ELSE CHOOSE m \in fwd.channel_post : TRUE]}

\* extract_original, as an Option.
extract_original(fwd) ==
    IF fwd.from_id = {} THEN {}
    ELSE IF fwd.channel_post = {} THEN {}
    ELSE {[peer_id |-> CHOOSE p \in fwd.from_id : TRUE,
           message_id |-> CHOOSE m \in fwd.channel_post : TRUE]}

\* The forward a new message is registered as, when it is a trackable forward (an Option).
RegisteredForward(message) ==
    IF message.fwd_header = {} THEN {}
    ELSE IF extract_original(CHOOSE h \in message.fwd_header : TRUE) = {} THEN {}
    ELSE {[chat_id |-> message.chat_id, message_id |-> message.id]}

\* The original a new message is registered under (an Option).
RegisteredOriginal(message) ==
    IF message.fwd_header = {} THEN {}
    ELSE extract_original(CHOOSE h \in message.fwd_header : TRUE)

\* plan_new_message: the tracker after the call and the Action it returns.
plan_new_message(message, t, now) ==
    IF message.fwd_header = {} THEN [tracker |-> t, action |-> ActionNone]
    ELSE LET fwd_header == CHOOSE h \in message.fwd_header : TRUE
             extracted == extract_original(fwd_header)
         IN  IF extracted = {} THEN [tracker |-> t, action |-> ActionNone]
             ELSE LET original == CHOOSE o \in extracted : TRUE
                      chat_id == message.chat_id
                      forward == [chat_id |-> chat_id, message_id |-> message.id]
                      chat_name == IF message.peer_name = {}
                                     THEN ToString(chat_id)
                                     ELSE CHOOSE n \in message.peer_name : TRUE
                  IN  [tracker |-> register_forward(t, original, forward, now),
                       action |-> IF message.peer_ref
                                    THEN CachePeer(chat_id, [id |-> chat_id], chat_name)
                                    ELSE ActionNone]

\* The filter of plan_read_event: forwards not (in this chat with message_id <= max_id).
RECURSIVE OtherForwards(_, _, _)
OtherForwards(forwards, chat_id, max_id) ==
    IF forwards = <<>> THEN <<>>
    ELSE LET f == Head(forwards)
             rest == OtherForwards(Tail(forwards), chat_id, max_id)
         IN  IF ~(f.chat_id = chat_id /\ f.message_id <= max_id)
               THEN <<f>> \o rest
               ELSE rest

\* The loop of plan_read_event: for original in originals.
RECURSIVE ReadLoop(_, _, _, _, _, _)
ReadLoop(t, originals, chat_id, max_id, i, all_forwards) ==
    IF i > Len(originals) THEN [tracker |-> t, all_forwards |-> all_forwards]
    ELSE LET original == originals[i]
             forwards == mark_original_read_ret(t, original)
         IN  ReadLoop(mark_original_read(t, original), originals, chat_id, max_id, i + 1,
                      all_forwards \o OtherForwards(forwards, chat_id, max_id))

\* plan_read_event: the tracker after the call and the Action it returns.
plan_read_event(chat_id, max_id, t) ==
    LET originals == find_read_originals_in_chat(t, chat_id, max_id)
    IN  IF originals = <<>> THEN [tracker |-> t, action |-> ActionNone]
        ELSE LET done == ReadLoop(t, originals, chat_id, max_id, 1, <<>>)
             IN  [tracker |-> done.tracker,
                  action |-> IF done.all_forwards = <<>>
                               THEN ActionNone
                               ELSE MarkForwards(done.all_forwards)]

\* The raw updates: the two read-history variants and any other raw update.
RawUpdate ==
    [kind : {"ReadHistoryInbox", "ReadChannelInbox"}, chat_id : ChatIds, max_id : MsgIds]
        \cup {[kind |-> "OtherRaw"]}

\* plan_raw_update.
plan_raw_update(raw, t) ==
    IF raw.kind \in {"ReadHistoryInbox", "ReadChannelInbox"}
      THEN plan_read_event(raw.chat_id, raw.max_id, t)
      ELSE [tracker |-> t, action |-> ActionNone]

\* The inbound updates: Update::NewMessage, Update::Raw and the other kinds.
Update ==
    [kind : {"NewMessage"}, message : Message]
        \cup [kind : {"Raw"}, raw : RawUpdate]
        \cup {[kind |-> "Other"]}

\* plan_update.
plan_update(update, t, now) ==
    IF update.kind = "NewMessage" THEN plan_new_message(update.message, t, now)
    ELSE IF update.kind = "Raw" THEN plan_raw_update(update.raw, t)
    ELSE [tracker |-> t, action |-> ActionNone]

\* --------------------------------------------------------- the state file

\* config.state_path: the file name state.json as its dot-separated parts.
StatePath == <<"state", "json">>

\* Path::with_extension: the extension of the file name replaced, or added
\* to a file name that has none.
with_extension(path, extension) ==
    IF Len(path) > 1 THEN SubSeq(path, 1, Len(path) - 1) \o extension ELSE path \o extension

\* save writing in place: the temporary path is the state path itself.
tmp_path_in_place(path) == path

\* save's tmp_path: path.with_extension("json.tmp").
tmp_path(path) == with_extension(path, <<"json", "tmp">>)

\* A file holding all of the serialized data.
Complete(data) == [complete |-> TRUE, data |-> data]

\* A file std::fs::write has created or truncated and not finished writing:
\* some proper prefix of the data.
Partial(data) == [complete |-> FALSE, data |-> data]

\* The file at a path, as an Option.
FileAt(d, path) == IF path \in DOMAIN d THEN {d[path]} ELSE {}

\* --------------------------------------------------------------- the marker

\* cache_peer with HashMap::insert in place of entry().or_insert().
cache_peer_overwrites(cache, chat_id, peer_ref, name) == Put(cache, chat_id, <<peer_ref, name>>)

\* Marker::cache_peer: the peer cache after the call.
cache_peer(cache, chat_id, peer_ref, name) ==
    IF chat_id \in DOMAIN cache THEN cache ELSE Put(cache, chat_id, <<peer_ref, name>>)

\* Marker::get_chat_name.
get_chat_name(cache, chat_id) ==
    IF chat_id \in DOMAIN cache THEN cache[chat_id][2] ELSE "unknown"

\* A dialog of the startup enumeration: peer.id(), peer.to_ref(), peer.name().
Dialog == [chat_id : ChatIds, peer_ref : BOOLEAN, name : {{}, {"title"}}]

\* The dialog lists iter_dialogs may yield, up to a length.
DialogLists(n) == UNION {[1..k -> Dialog] : k \in 0..n}

\* The loop of build_peer_cache over the dialogs.
RECURSIVE BuildLoop(_, _, _)
BuildLoop(cache, dialogs, i) ==
    IF i > Len(dialogs) THEN cache
    ELSE LET dialog == dialogs[i]
             name == IF dialog.name = {} THEN "unnamed" ELSE CHOOSE n \in dialog.name : TRUE
         IN  BuildLoop(IF dialog.peer_ref
                         THEN Put(cache, dialog.chat_id, <<[id |-> dialog.chat_id], name>>)
                         ELSE cache,
                       dialogs, i + 1)

\* Marker::build_peer_cache: the peer cache after the enumeration.
build_peer_cache(cache, dialogs) == BuildLoop(cache, dialogs, 1)

\* One call of mark_read as mark_forwards_read records it: the forward and
\* "no_peer" (no cached peer, no remote call), "ok" or "err" (the remote call's result).
Attempt(forward, result) == [forward |-> forward, result |-> result]

\* mark_forwards_read returning at the first failed mark_read.
after_attempt_aborts(forwards, attempts) ==
    IF Len(attempts) = Len(forwards) \/ attempts[Len(attempts)].result /= "ok"
      THEN "executed"
      ELSE "mark_sleep"

\* mark_forwards_read after mark_read has returned for one forward, its error
\* only logged: the loop is over, or sleeps before the next forward.
after_attempt(forwards, attempts) ==
    IF Len(attempts) = Len(forwards) THEN "executed" ELSE "mark_sleep"

\* The Action values execute_action may be handed.
Batches == UNION {[1..k -> ForwardLocation] : k \in 0..MaxBatch}
Actions ==
    {ActionNone}
        \cup UNION {{CachePeer(c, [id |-> c], n) : n \in {"title", ToString(c)}} : c \in ChatIds}
        \cup {MarkForwards(forwards) : forwards \in Batches}

\* ------------------------------------------------------- the state machine

VARIABLES
    tracker,    \* the DuplicateTracker behind the Index lock (main.rs:76)
    now,        \* the clock epoch_secs reads (tracker.rs:200-205)
    last,       \* the last operation: its name, arguments and result
    pc,         \* where the main task and the background task are
    index_lock, \* the holder of the tracker Mutex (main.rs:76), an Option
    marker_lock,\* the holder of the marker Mutex (main.rs:81), an Option
    update,     \* the update the main loop has taken from the stream, an Option
    action,     \* the Action planned for it, until it is executed, an Option
    attempts,   \* the mark_read calls mark_forwards_read has made for it
    peer_cache, \* Marker::peer_cache (marker.rs:20)
    disk,       \* the files of the state directory: path -> contents
    shutdown_log \* what the main task has done since it took the shutdown signal

\* The tasks: the main loop and the spawned save/cleanup task.
Tasks == {"main", "background"}

\* The state of the orchestration, which the calls on the Index alone leave as it is.
orch == <<pc, index_lock, marker_lock, update, action, attempts, peer_cache, disk, shutdown_log>>

vars == <<tracker, now, last, orch>>

\* The record of one operation: Options as sets, numeric arguments as a tuple.
Last(op, original, forward, nums, ret) ==
    [op |-> op, original |-> original, forward |-> forward, nums |-> nums, ret |-> ret]

\* The number of forwards recorded over all originals.
RECURSIVE TrackedOver(_, _)
TrackedOver(t, os) ==
    IF os = {} THEN 0
    ELSE LET o == CHOOSE x \in os : TRUE
         IN  Len(t.originals[o]) + TrackedOver(t, os \ {o})

Tracked(t) == TrackedOver(t, DOMAIN t.originals)

\* main.rs:60-76 with no state file: DuplicateTracker::default().
Init ==
    /\ tracker = EmptyTracker
    /\ now = 0
    /\ last = Last("init", {}, {}, <<>>, "unit")
    /\ pc = [task \in Tasks |-> IF task = "main" THEN "build_peer_cache" ELSE "unspawned"]
    /\ index_lock = {}
    /\ marker_lock = {}
    /\ update = {}
    /\ action = {}
    /\ attempts = <<>>
    /\ peer_cache = EmptyMap
    /\ disk = EmptyMap
    /\ shutdown_log = <<>>

\* One second passes on the clock, which is read as non-decreasing.
Tick ==
    /\ now < MaxTime
    /\ now' = now + 1
    /\ last' = Last("tick", {}, {}, <<>>, "unit")
    /\ UNCHANGED <<tracker, orch>>

\* A call of register_forward(original, forward).
RegisterForward(original, forward) ==
    LET after == register_forward(tracker, original, forward, now)
    IN  /\ Tracked(after) <= MaxTracked
        /\ tracker' = after
        /\ last' = Last("register_forward", {original}, {forward}, <<>>,
                        register_forward_ret(tracker, original, forward))
        /\ UNCHANGED <<now, orch>>

\* A call of mark_original_read(original).
MarkOriginalRead(original) ==
    /\ tracker' = mark_original_read(tracker, original)
    /\ last' = Last("mark_original_read", {original}, {}, <<>>,
                    mark_original_read_ret(tracker, original))
    /\ UNCHANGED <<now, orch>>

\* A call of cleanup(max_age_secs), first_seen iterated in the order iter;
\* the result recorded is the count of old originals the call logs.
Cleanup(max_age_secs, iter) ==
    /\ tracker' = cleanup(tracker, now, max_age_secs, iter)
    /\ last' = Last("cleanup", {}, {}, <<max_age_secs>>, cleanup_count(tracker, now, max_age_secs))
    /\ UNCHANGED <<now, orch>>

\* Phase one of the main loop for a new-message update (main.rs:136-140).
PlanNewMessage(message) ==
    LET planned == plan_update([kind |-> "NewMessage", message |-> message], tracker, now)
    IN  /\ Tracked(planned.tracker) <= MaxTracked
        /\ tracker' = planned.tracker
        /\ last' = Last("plan_new_message", RegisteredOriginal(message),
                        RegisteredForward(message), <<>>, planned.action)
        /\ UNCHANGED <<now, orch>>

\* Phase one of the main loop for a raw update (main.rs:136-140).
PlanRawUpdate(raw) ==
    LET planned == plan_update([kind |-> "Raw", raw |-> raw], tracker, now)
    IN  /\ tracker' = planned.tracker
        /\ last' = IF raw.kind = "OtherRaw"
                     THEN Last("plan_other", {}, {}, <<>>, planned.action)
                     ELSE Last("plan_read_event", {}, {}, <<raw.chat_id, raw.max_id>>,
                               planned.action)
        /\ UNCHANGED <<now, orch>>

\* Phase one of the main loop for any other update kind (main.rs:136-140).
PlanOtherUpdate ==
    LET planned == plan_update([kind |-> "Other"], tracker, now)
    IN  /\ tracker' = planned.tracker
        /\ last' = Last("plan_other", {}, {}, <<>>, planned.action)
        /\ UNCHANGED <<now, orch>>

\* A restart: the final save (main.rs:153-160), then load of that file at the
\* next start (main.rs:60-74), the loaded forward_index iterated in some order.
Restart ==
    /\ \E order \in Orders(DOMAIN tracker.forward_index) :
           tracker' = load(Serialize(tracker), order)
    /\ last' = Last("load", {}, {}, <<>>, "unit")
    /\ UNCHANGED <<now, orch>>

\* The operations of the Index, called in any order, and the reload of its file.
Next ==
    \/ Tick
    \/ \E original \in OriginalMessageId, forward \in ForwardLocation :
          RegisterForward(original, forward)
    \/ \E original \in OriginalMessageId : MarkOriginalRead(original)
    \/ \E max_age_secs \in MaxAges, iter \in Orders(DOMAIN tracker.first_seen) :
          Cleanup(max_age_secs, iter)
    \/ Restart

Spec == Init /\ [][Next]_vars

\* The event pipeline: phase one of the main loop for each inbound update,
\* and the cleanup the background task runs. The retention the task passes
\* (CLEANUP_MAX_AGE, main.rs:23) ranges over MaxAges here, so that the short
\* clock reaches both sides of the cutoff.
PipelineNext ==
    \/ Tick
    \/ \E message \in Message : PlanNewMessage(message)
    \/ \E raw \in RawUpdate : PlanRawUpdate(raw)
    \/ PlanOtherUpdate
    \/ \E max_age_secs \in MaxAges, iter \in Orders(DOMAIN tracker.first_seen) :
          Cleanup(max_age_secs, iter)

PipelineSpec == Init /\ [][PipelineNext]_vars

\* The main loop takes every update the stream yields (main.rs:127-151):
\* planning is never postponed forever.
FairPipelineSpec == PipelineSpec /\ WF_vars(PipelineNext)

\* The new messages that are trackable forwards: one per original and
\* location. A message that is not one leaves the Index as it is.
TrackableForwards ==
    {[fwd_header |-> {[from_id |-> {o.peer_id}, channel_post |-> {o.message_id}]},
      chat_id |-> f.chat_id, id |-> f.message_id, peer_name |-> {"title"}, peer_ref |-> TRUE] :
        o \in OriginalMessageId, f \in ForwardLocation}

\* What reaches the Index through the orchestrator: the forwards and the read
\* events the main loop plans and the cleanup the background task runs, the
\* clock running. The retention ranges over MaxAges as in PipelineSpec.
RetentionNext ==
    \/ Tick
    \/ \E message \in TrackableForwards : PlanNewMessage(message)
    \/ \E raw \in RawUpdate : PlanRawUpdate(raw)
    \/ \E max_age_secs \in MaxAges, iter \in Orders(DOMAIN tracker.first_seen) :
          Cleanup(max_age_secs, iter)

RetentionSpec == Init /\ [][RetentionNext]_vars

\* -------------------------------------------------------- the orchestration

\* CLEANUP_MAX_AGE: 30 days in seconds.
CLEANUP_MAX_AGE == 30 * 24 * 60 * 60

\* The MutexGuard of `task` going out of scope without releasing the lock.
drop_guard_keeps(lock, task) == lock

\* The MutexGuard of `task` going out of scope: the lock is released.
drop_guard(lock, task) == lock \ {task}

\* A new-message update: a forward of `original` seen at `forward`.
ForwardSeen(original, forward, peer_name, peer_ref) ==
    [kind |-> "NewMessage",
     message |-> [fwd_header |-> {[from_id |-> {original.peer_id},
                                   channel_post |-> {original.message_id}]},
                  chat_id |-> forward.chat_id, id |-> forward.message_id,
                  peer_name |-> peer_name, peer_ref |-> peer_ref]]

\* The updates the stream yields to the main loop: the discussion-group
\* scenario of the tracker's tests (one original forwarded into a first chat
\* and twice into a second, a read event in the first chat), and an update
\* of another kind.
StreamUpdates ==
    LET o == [peer_id |-> 1, message_id |-> 100]
    IN  {ForwardSeen(o, [chat_id |-> 10, message_id |-> 50], {"title"}, TRUE),
         ForwardSeen(o, [chat_id |-> 20, message_id |-> 50], {}, FALSE),
         ForwardSeen(o, [chat_id |-> 20, message_id |-> 60], {}, FALSE),
         [kind |-> "Raw", raw |-> [kind |-> "ReadHistoryInbox", chat_id |-> 10, max_id |-> 50]],
         [kind |-> "Other"]}

\* The dialog lists of the startup enumeration in the orchestration: none,
\* or the second chat of the scenario.
StartupDialogs == {<<>>, <<[chat_id |-> 20, peer_ref |-> TRUE, name |-> {}]>>}

\* The update the main loop holds, and the action planned for it.
TheUpdate == CHOOSE u \in update : TRUE
TheAction == CHOOSE a \in action : TRUE

\* An update whose planning reaches `message.peer_ref().await` (handler.rs:132).
AwaitsPeerRef(u) == u.kind = "NewMessage" /\ RegisteredForward(u.message) /= {}

\* main.rs:79-122: the peer cache is built from the dialogs, the update stream
\* is started and the save/cleanup task is spawned.
BuildPeerCache(dialogs) ==
    /\ pc["main"] = "build_peer_cache"
    /\ peer_cache' = build_peer_cache(peer_cache, dialogs)
    /\ pc' = [pc EXCEPT !["main"] = "select", !["background"] = "idle"]
    /\ UNCHANGED <<tracker, now, last, index_lock, marker_lock, update, action, attempts,
                   disk, shutdown_log>>

\* main.rs:80: the enumeration fails and main returns the error.
BuildPeerCacheFails ==
    /\ pc["main"] = "build_peer_cache"
    /\ pc' = [pc EXCEPT !["main"] = "failed"]
    /\ UNCHANGED <<tracker, now, last, index_lock, marker_lock, update, action, attempts,
                   peer_cache, disk, shutdown_log>>

\* main.rs:133-135: the select takes an update from the stream.
MainTakeUpdate(u) ==
    /\ pc["main"] = "select"
    /\ update' = {u}
    /\ pc' = [pc EXCEPT !["main"] = "lock_tracker"]
    /\ UNCHANGED <<tracker, now, last, index_lock, marker_lock, action, attempts,
                   peer_cache, disk, shutdown_log>>

\* main.rs:145-147: the stream yields an error, which is logged; the loop goes on.
MainStreamError ==
    /\ pc["main"] = "select"
    /\ UNCHANGED vars

\* main.rs:138: tracker.lock().await returns the guard.
MainLockTracker ==
    /\ pc["main"] = "lock_tracker"
    /\ index_lock = {}
    /\ index_lock' = {"main"}
    /\ pc' = [pc EXCEPT !["main"] = "plan_update"]
    /\ UNCHANGED <<tracker, now, last, marker_lock, update, action, attempts,
                   peer_cache, disk, shutdown_log>>

\* Phase one doing the executor's work: the peer of a CachePeer action is
\* cached while the update is being planned.
MainPlan_caches_peer ==
    /\ pc["main"] = "plan_update"
    /\ LET planned == plan_update(TheUpdate, tracker, now)
           a == planned.action
       IN  /\ tracker' = planned.tracker
           /\ action' = {a}
           /\ peer_cache' = IF a.kind = "CachePeer"
                               THEN cache_peer(peer_cache, a.chat_id, a.peer_ref, a.name)
                               ELSE peer_cache
    /\ update' = {}
    /\ index_lock' = drop_guard(index_lock, "main")
    /\ pc' = [pc EXCEPT !["main"] = "lock_marker"]
    /\ UNCHANGED <<now, last, marker_lock, attempts, disk, shutdown_log>>

\* main.rs:137-140: plan_update runs to its end without being suspended (for
\* a trackable forward: peer_ref() is ready when first polled); the guard is
\* dropped at the end of the block.
MainPlan ==
    /\ pc["main"] = "plan_update"
    /\ LET planned == plan_update(TheUpdate, tracker, now)
       IN  /\ tracker' = planned.tracker
           /\ action' = {planned.action}
    /\ update' = {}
    /\ index_lock' = drop_guard(index_lock, "main")
    /\ pc' = [pc EXCEPT !["main"] = "lock_marker"]
    /\ UNCHANGED <<now, last, marker_lock, attempts, peer_cache, disk, shutdown_log>>

\* handler.rs:101-132: plan_new_message has registered the forward and is
\* suspended at message.peer_ref().await, the guard still alive in main.
MainPlanSuspends ==
    /\ pc["main"] = "plan_update"
    /\ AwaitsPeerRef(TheUpdate)
    /\ tracker' = plan_update(TheUpdate, tracker, now).tracker
    /\ pc' = [pc EXCEPT !["main"] = "peer_ref"]
    /\ UNCHANGED <<now, last, index_lock, marker_lock, update, action, attempts,
                   peer_cache, disk, shutdown_log>>

\* handler.rs:132-139 and main.rs:140: peer_ref() resolves, the action is
\* returned and the guard dropped.
MainPeerRefReady ==
    /\ pc["main"] = "peer_ref"
    /\ action' = {plan_update(TheUpdate, tracker, now).action}
    /\ update' = {}
    /\ index_lock' = drop_guard(index_lock, "main")
    /\ pc' = [pc EXCEPT !["main"] = "lock_marker"]
    /\ UNCHANGED <<tracker, now, last, marker_lock, attempts, peer_cache, disk, shutdown_log>>

\* main.rs:142: marker.lock().await returns the guard.
MainLockMarker ==
    /\ pc["main"] = "lock_marker"
    /\ marker_lock = {}
    /\ marker_lock' = {"main"}
    /\ pc' = [pc EXCEPT !["main"] = "execute_action"]
    /\ UNCHANGED <<tracker, now, last, index_lock, update, action, attempts,
                   peer_cache, disk, shutdown_log>>

\* mark_forwards_read arriving at mark_read for the next forward, `done`
\* being the calls made so far: with no cached peer mark_read fails at once
\* and the loop goes on; with one, the remote call is awaited.
MarkReadNext(forwards, done) ==
    IF Len(done) = Len(forwards) THEN [pc |-> "executed", attempts |-> done]
    ELSE LET fwd == forwards[Len(done) + 1]
         IN  IF fwd.chat_id \notin DOMAIN peer_cache
               THEN LET made == Append(done, Attempt(fwd, "no_peer"))
                    IN  [pc |-> after_attempt(forwards, made), attempts |-> made]
               ELSE [pc |-> "mark_call", attempts |-> done]

\* execute_action up to its first suspension: nothing for None, cache_peer
\* for CachePeer, mark_forwards_read up to the first remote call or sleep for
\* MarkForwards.
ExecuteAction ==
    /\ pc["main"] = "execute_action"
    /\ LET a == TheAction
       IN  IF a.kind = "CachePeer"
             THEN /\ peer_cache' = cache_peer(peer_cache, a.chat_id, a.peer_ref, a.name)
                  /\ pc' = [pc EXCEPT !["main"] = "executed"]
                  /\ UNCHANGED attempts
             ELSE IF a.kind = "MarkForwards"
               THEN LET next == MarkReadNext(a.forwards, <<>>)
                    IN  /\ attempts' = next.attempts
                        /\ pc' = [pc EXCEPT !["main"] = next.pc]
                        /\ UNCHANGED peer_cache
               ELSE /\ pc' = [pc EXCEPT !["main"] = "executed"]
                    /\ UNCHANGED <<attempts, peer_cache>>
    /\ UNCHANGED <<tracker, now, last, index_lock, marker_lock, update, action,
                   disk, shutdown_log>>

\* marker.rs:99-102: sleep(MARK_READ_DELAY) is over; mark_read is called.
MarkSleepDone ==
    /\ pc["main"] = "mark_sleep"
    /\ LET next == MarkReadNext(TheAction.forwards, attempts)
       IN  /\ attempts' = next.attempts
           /\ pc' = [pc EXCEPT !["main"] = next.pc]
    /\ UNCHANGED <<tracker, now, last, index_lock, marker_lock, update, action,
                   peer_cache, disk, shutdown_log>>

\* marker.rs:74-92 and 102-107: the remote call returns, with success or an error.
MarkCallReturns(result) ==
    /\ pc["main"] = "mark_call"
    /\ LET forwards == TheAction.forwards
           made == Append(attempts, Attempt(forwards[Len(attempts) + 1], result))
       IN  /\ attempts' = made
           /\ pc' = [pc EXCEPT !["main"] = after_attempt(forwards, made)]
    /\ UNCHANGED <<tracker, now, last, index_lock, marker_lock, update, action,
                   peer_cache, disk, shutdown_log>>

\* main.rs:143-144: execute_action has returned; the action and the marker
\* guard are dropped and the loop returns to its select.
MainReleaseMarker ==
    /\ pc["main"] = "executed"
    /\ marker_lock' = drop_guard(marker_lock, "main")
    /\ action' = {}
    /\ attempts' = <<>>
    /\ pc' = [pc EXCEPT !["main"] = "select"]
    /\ UNCHANGED <<tracker, now, last, index_lock, update, peer_cache, disk, shutdown_log>>

\* The shutdown going from the loop straight to the transport, with no final save.
after_loop_skips_save == "sync_update_state"

\* main.rs:153-156: what follows the loop is the final save, under the tracker lock.
after_loop == "final_lock"

\* The select racing Ctrl+C against the whole handling of an update: the
\* signal is also taken between plan_update and execute_action, and the
\* planned action is left behind.
MainTakeShutdown_anywhere ==
    /\ pc["main"] \in {"select", "lock_marker"}
    /\ shutdown_log' = <<"signal">>
    /\ pc' = [pc EXCEPT !["main"] = after_loop]
    /\ UNCHANGED <<tracker, now, last, index_lock, marker_lock, update, action, attempts,
                   peer_cache, disk>>

\* main.rs:129-132: the select takes Ctrl+C and the loop is left.
MainTakeShutdown ==
    /\ pc["main"] = "select"
    /\ shutdown_log' = <<"signal">>
    /\ pc' = [pc EXCEPT !["main"] = after_loop]
    /\ UNCHANGED <<tracker, now, last, index_lock, marker_lock, update, action, attempts,
                   peer_cache, disk>>

\* main.rs:156: tracker.lock().await returns the guard for the final save.
MainFinalLock ==
    /\ pc["main"] = "final_lock"
    /\ index_lock = {}
    /\ index_lock' = {"main"}
    /\ pc' = [pc EXCEPT !["main"] = "save"]
    /\ UNCHANGED <<tracker, now, last, marker_lock, update, action, attempts,
                   peer_cache, disk, shutdown_log>>

\* The caller of save keeping its guard alive after save has returned.
SaveReturns_keeps_guard(task, result) ==
    /\ UNCHANGED index_lock
    /\ IF task = "main"
         THEN /\ pc' = [pc EXCEPT !["main"] = "sync_update_state"]
              /\ shutdown_log' = Append(shutdown_log, "save_" \o result)
         ELSE /\ pc' = [pc EXCEPT !["background"] = "idle"]
              /\ UNCHANGED shutdown_log

\* The caller of save after it has returned (main.rs:110-115 and 157-160):
\* the result is logged and the guard dropped; the background task returns
\* to its select, the main task goes on with the shutdown.
SaveReturns(task, result) ==
    /\ index_lock' = drop_guard(index_lock, task)
    /\ IF task = "main"
         THEN /\ pc' = [pc EXCEPT !["main"] = "sync_update_state"]
              /\ shutdown_log' = Append(shutdown_log, "save_" \o result)
         ELSE /\ pc' = [pc EXCEPT !["background"] = "idle"]
              /\ UNCHANGED shutdown_log

\* A save that gives up the guard once the data is serialized and does its
\* file I/O without the lock.
SaveCreateTmp_unlocked(task) ==
    /\ pc[task] = "save"
    /\ disk' = Put(disk, tmp_path(StatePath), Partial(Serialize(tracker)))
    /\ index_lock' = drop_guard(index_lock, task)
    /\ pc' = [pc EXCEPT ![task] = "save_write"]
    /\ UNCHANGED <<tracker, now, last, marker_lock, update, action, attempts,
                   peer_cache, shutdown_log>>

\* tracker.rs:189-193: the data is serialized and std::fs::write has created
\* or truncated the temporary file.
SaveCreateTmp(task) ==
    /\ pc[task] = "save"
    /\ disk' = Put(disk, tmp_path(StatePath), Partial(Serialize(tracker)))
    /\ pc' = [pc EXCEPT ![task] = "save_write"]
    /\ UNCHANGED <<tracker, now, last, index_lock, marker_lock, update, action, attempts,
                   peer_cache, shutdown_log>>

\* tracker.rs:192: std::fs::write has written all of the data.
SaveWriteTmp(task) ==
    /\ pc[task] = "save_write"
    /\ disk' = Put(disk, tmp_path(StatePath), Complete(Serialize(tracker)))
    /\ pc' = [pc EXCEPT ![task] = "save_rename"]
    /\ UNCHANGED <<tracker, now, last, index_lock, marker_lock, update, action, attempts,
                   peer_cache, shutdown_log>>

\* tracker.rs:194-196: std::fs::rename puts the temporary file in place of
\* the state file in one step, and save returns Ok.
SaveRename(task) ==
    /\ pc[task] = "save_rename"
    /\ LET tmp == tmp_path(StatePath)
       IN  disk' = Put(Drop(disk, tmp), StatePath, disk[tmp])
    /\ SaveReturns(task, "ok")
    /\ UNCHANGED <<tracker, now, last, marker_lock, update, action, attempts, peer_cache>>

\* tracker.rs:192-195: std::fs::write fails before or after it has created
\* the file, or std::fs::rename fails; save returns the error.
SaveFails(task) ==
    /\ pc[task] \in {"save", "save_write", "save_rename"}
    /\ SaveReturns(task, "err")
    /\ UNCHANGED <<tracker, now, last, marker_lock, update, action, attempts, peer_cache, disk>>

\* main.rs:163: update_stream.sync_update_state().
MainSyncUpdateState ==
    /\ pc["main"] = "sync_update_state"
    /\ shutdown_log' = Append(shutdown_log, "sync")
    /\ pc' = [pc EXCEPT !["main"] = "quit"]
    /\ UNCHANGED <<tracker, now, last, index_lock, marker_lock, update, action, attempts,
                   peer_cache, disk>>

\* main.rs:164: handle.quit().
MainQuit ==
    /\ pc["main"] = "quit"
    /\ shutdown_log' = Append(shutdown_log, "quit")
    /\ pc' = [pc EXCEPT !["main"] = "await_pool"]
    /\ UNCHANGED <<tracker, now, last, index_lock, marker_lock, update, action, attempts,
                   peer_cache, disk>>

\* main.rs:165-168: pool_task has ended, whatever its result; main returns Ok(()).
MainAwaitPool ==
    /\ pc["main"] = "await_pool"
    /\ shutdown_log' = Append(shutdown_log, "pool_joined")
    /\ pc' = [pc EXCEPT !["main"] = "exited"]
    /\ UNCHANGED <<tracker, now, last, index_lock, marker_lock, update, action, attempts,
                   peer_cache, disk>>

\* main.rs:107-119: the select of the background task takes a tick of the
\* save interval or of the cleanup interval; the task is dropped with the
\* runtime once main has returned.
BackgroundTick(label) ==
    /\ pc["background"] = "idle"
    /\ pc["main"] /= "exited"
    /\ pc' = [pc EXCEPT !["background"] = label]
    /\ UNCHANGED <<tracker, now, last, index_lock, marker_lock, update, action, attempts,
                   peer_cache, disk, shutdown_log>>

\* main.rs:109 and 117: save_tracker.lock().await returns the guard.
BackgroundLockTracker ==
    /\ pc["background"] \in {"save_lock", "cleanup_lock"}
    /\ pc["main"] /= "exited"
    /\ index_lock = {}
    /\ index_lock' = {"background"}
    /\ pc' = [pc EXCEPT !["background"] = IF pc["background"] = "save_lock"
                                            THEN "save" ELSE "cleanup"]
    /\ UNCHANGED <<tracker, now, last, marker_lock, update, action, attempts,
                   peer_cache, disk, shutdown_log>>

\* main.rs:118-119: t.cleanup(CLEANUP_MAX_AGE), then the guard is dropped.
BackgroundCleanup(iter) ==
    /\ pc["background"] = "cleanup"
    /\ tracker' = cleanup(tracker, now, CLEANUP_MAX_AGE, iter)
    /\ index_lock' = drop_guard(index_lock, "background")
    /\ pc' = [pc EXCEPT !["background"] = "idle"]
    /\ UNCHANGED <<now, last, marker_lock, update, action, attempts,
                   peer_cache, disk, shutdown_log>>

\* The process is killed: what it held in memory is gone, the files stay.
Crash ==
    /\ pc["main"] \notin {"crashed", "failed"}
    /\ pc' = [task \in Tasks |-> "crashed"]
    /\ tracker' = EmptyTracker
    /\ index_lock' = {}
    /\ marker_lock' = {}
    /\ update' = {}
    /\ action' = {}
    /\ attempts' = <<>>
    /\ peer_cache' = EmptyMap
    /\ shutdown_log' = <<>>
    /\ UNCHANGED <<now, last, disk>>

\* The main loop (main.rs:127-169) and the background task (main.rs:100-122)
\* running side by side, and the process killed at any point. The clock
\* stands still here: nothing in the orchestration reads it but
\* register_forward and cleanup, whose results are the subject of Spec.
OrchNext ==
    \/ \E dialogs \in StartupDialogs : BuildPeerCache(dialogs)
    \/ BuildPeerCacheFails
    \/ \E u \in StreamUpdates : MainTakeUpdate(u)
    \/ MainStreamError
    \/ MainLockTracker
    \/ MainPlan
    \/ MainPlanSuspends
    \/ MainPeerRefReady
    \/ MainLockMarker
    \/ ExecuteAction
    \/ MarkSleepDone
    \/ \E result \in {"ok", "err"} : MarkCallReturns(result)
    \/ MainReleaseMarker
    \/ MainTakeShutdown
    \/ MainFinalLock
    \/ \E task \in Tasks : SaveCreateTmp(task)
    \/ \E task \in Tasks : SaveWriteTmp(task)
    \/ \E task \in Tasks : SaveRename(task)
    \/ \E task \in Tasks : SaveFails(task)
    \/ MainSyncUpdateState
    \/ MainQuit
    \/ MainAwaitPool
    \/ \E label \in {"save_lock", "cleanup_lock"} : BackgroundTick(label)
    \/ BackgroundLockTracker
    \/ \E iter \in Orders(DOMAIN tracker.first_seen) : BackgroundCleanup(iter)
    \/ Crash

OrchSpec == Init /\ [][OrchNext]_vars

\* The steps of the background task.
BackgroundNext ==
    \/ \E label \in {"save_lock", "cleanup_lock"} : BackgroundTick(label)
    \/ BackgroundLockTracker
    \/ \E iter \in Orders(DOMAIN tracker.first_seen) : BackgroundCleanup(iter)
    \/ SaveCreateTmp("background")
    \/ SaveWriteTmp("background")
    \/ SaveRename("background")
    \/ SaveFails("background")

\* The steps of the background task once it holds the tracker lock: save or
\* cleanup, neither of which has an await (tracker.rs:135-163, 188-197).
BackgroundRun ==
    \/ \E iter \in Orders(DOMAIN tracker.first_seen) : BackgroundCleanup(iter)
    \/ SaveCreateTmp("background")
    \/ SaveWriteTmp("background")
    \/ SaveRename("background")
    \/ SaveFails("background")

\* The steps of the main task in phase one once it holds the tracker lock
\* (main.rs:137-140, handler.rs:97-140).
MainPlanRun == MainPlan \/ MainPlanSuspends \/ MainPeerRefReady

\* The process in steady operation: started with the second chat of the
\* scenario among its dialogs, the main loop handling one update after
\* another and the background task taking its ticks, with no shutdown signal
\* and no kill.
SteadyNext ==
    \/ BuildPeerCache(<<[chat_id |-> 20, peer_ref |-> TRUE, name |-> {}]>>)
    \/ \E u \in StreamUpdates : MainTakeUpdate(u)
    \/ MainLockTracker
    \/ MainPlanRun
    \/ MainLockMarker
    \/ ExecuteAction
    \/ MarkSleepDone
    \/ \E result \in {"ok", "err"} : MarkCallReturns(result)
    \/ MainReleaseMarker
    \/ \E label \in {"save_lock", "cleanup_lock"} : BackgroundTick(label)
    \/ BackgroundLockTracker
    \/ BackgroundRun

\* Steady operation under the scheduling of the runtime: a task that can run
\* is polled (weak fairness of the steps that wait for nothing but the task
\* itself), and tokio's Mutex hands the lock to its waiters in the order
\* they asked (strong fairness of the two lock() calls on the tracker Mutex,
\* main.rs:109, 117, 138).
FairSteadySpec ==
    /\ Init /\ [][SteadyNext]_vars
    /\ WF_vars(MainPlanRun)
    /\ WF_vars(BackgroundRun)
    /\ SF_vars(MainLockTracker)
    /\ SF_vars(BackgroundLockTracker)

\* Phase one for the executor alone: the main loop comes out of planning with
\* any Action value.
HandAction(a) ==
    /\ pc["main"] = "select"
    /\ action' = {a}
    /\ pc' = [pc EXCEPT !["main"] = "lock_marker"]
    /\ UNCHANGED <<tracker, now, last, index_lock, marker_lock, update, attempts,
                   peer_cache, disk, shutdown_log>>

\* The executor: the peer cache built at startup, then execute_action called
\* under the marker lock with any Action.
ExecutorNext ==
    \/ \E dialogs \in DialogLists(MaxDialogs) : BuildPeerCache(dialogs)
    \/ \E a \in Actions : HandAction(a)
    \/ MainLockMarker
    \/ ExecuteAction
    \/ MarkSleepDone
    \/ \E result \in {"ok", "err"} : MarkCallReturns(result)
    \/ MainReleaseMarker

ExecutorSpec == Init /\ [][ExecutorNext]_vars

\* Phase one alone: the planner called for one update after another, the
\* clock standing still.
PlannerNext ==
    \/ \E message \in Message : PlanNewMessage(message)
    \/ \E raw \in RawUpdate : PlanRawUpdate(raw)
    \/ PlanOtherUpdate

PlannerSpec == Init /\ [][PlannerNext]_vars

\* ------------------------------------------------------------- the claims

\* The forwards recorded for an original in `originals`, as a set.
ForwardsOf(t, o) == IF o \in DOMAIN t.originals THEN Range(t.originals[o]) ELSE {}

\* The originals with a recorded forward in the chat at or below max_id, not yet read.
NewlyRead(t, chat_id, max_id) ==
    {o \in DOMAIN t.originals :
        /\ o \notin t.read_originals
        /\ \E f \in Range(t.originals[o]) : f.chat_id = chat_id /\ f.message_id <= max_id}

\* The forwards of those originals that the reader has not just read natively.
OtherCopies(t, chat_id, max_id) ==
    {f \in UNION {ForwardsOf(t, o) : o \in NewlyRead(t, chat_id, max_id)} :
        ~(f.chat_id = chat_id /\ f.message_id <= max_id)}

\* The (message_id, original) pairs forward_index holds for one chat.
DerivedEntries(t, chat_id) ==
    {<<f.message_id, t.forward_index[f]>> :
        f \in {g \in DOMAIN t.forward_index : g.chat_id = chat_id}}

\* The entries chat_index holds for a forward location: those with its message_id.
EntriesFor(t, f) ==
    IF f.chat_id \in DOMAIN t.chat_index
      THEN {e \in Range(t.chat_index[f.chat_id]) : e[1] = f.message_id}
      ELSE {}

\* The number of positions of a Vec holding e.
Occurrences(s, e) == Cardinality({i \in 1..Len(s) : s[i] = e})

\* The original and forward arguments of the last operation.
LastOriginal == CHOOSE o \in last.original : TRUE
LastForward == CHOOSE f \in last.forward : TRUE

\* C1: planning a read-history event (c, m) marks read every unread original
\* with a recorded forward in chat c at or below m, and the action is
\* MarkForwards of exactly the other known forwards of those originals, or
\* None when there are none.
C1_ReadPropagation ==
    [][last'.op = "plan_read_event" =>
        LET c == last'.nums[1]
            m == last'.nums[2]
            planned == last'.ret
        IN  /\ NewlyRead(tracker, c, m) \subseteq tracker'.read_originals
            /\ IF OtherCopies(tracker, c, m) = {}
                 THEN planned = ActionNone
                 ELSE /\ planned.kind = "MarkForwards"
                      /\ Range(planned.forwards) = OtherCopies(tracker, c, m)]_vars

\* C3: a forward f is in originals[o] exactly when forward_index[f] = o.
C3_Bijection ==
    \A o \in OriginalMessageId, f \in ForwardLocation :
        (f \in ForwardsOf(tracker, o)) <=> (lookup_forward(tracker, f) = {o})

\* C4: chat_index is the grouping of forward_index by chat: for every chat
\* its entries are the (message_id, original) pairs of the forwards in that
\* chat, and a chat with no forward has no key.
C4_ChatIndexDerived ==
    /\ DOMAIN tracker.chat_index = {f.chat_id : f \in DOMAIN tracker.forward_index}
    /\ \A c \in DOMAIN tracker.chat_index :
          Range(tracker.chat_index[c]) = DerivedEntries(tracker, c)

\* C5: find_read_originals_in_chat(c, m) returns exactly the unread originals
\* with a recorded forward in chat c at or below m; nothing for a chat with
\* no recorded forward; never an original that is marked read.
C5_FindReadOriginals ==
    \A c \in ChatIds, m \in MsgIds :
        LET found == Range(find_read_originals_in_chat(tracker, c, m))
        IN  /\ found = NewlyRead(tracker, c, m)
            /\ (\A f \in DOMAIN tracker.forward_index : f.chat_id /= c) => found = {}
            /\ found \cap tracker.read_originals = {}

\* C6: mark_original_read(o) returns exactly the forwards registered for o
\* (none if o is unknown), makes is_original_read(o) true, adds nothing else
\* to read_originals, and leaves originals, forward_index, chat_index and
\* first_seen as they were; a second call changes nothing.
C6_MarkOriginalRead ==
    [][last'.op = "mark_original_read" =>
        LET o == CHOOSE x \in last'.original : TRUE
        IN  /\ Len(last'.ret) = Cardinality(ForwardsOf(tracker, o))
            /\ Range(last'.ret) = ForwardsOf(tracker, o)
            /\ (o \in DOMAIN tracker.originals => last'.ret = tracker.originals[o])
            /\ is_original_read(tracker', o)
            /\ tracker'.read_originals = tracker.read_originals \cup {o}
            /\ tracker'.originals = tracker.originals
            /\ tracker'.forward_index = tracker.forward_index
            /\ tracker'.chat_index = tracker.chat_index
            /\ tracker'.first_seen = tracker.first_seen
            /\ mark_original_read(tracker', o) = tracker'
            /\ mark_original_read_ret(tracker', o) = last'.ret]_vars

\* C6 witness: mark_original_read has just returned two forwards of an
\* original, which is now read.
C6_Witness ==
    /\ last.op = "mark_original_read"
    /\ Len(last.ret) = 2
    /\ LastOriginal \in tracker.read_originals

\* C7: register_forward(o, f) applied a second time right after the first,
\* at any later clock value, leaves the whole Index as the first left it;
\* originals[o] holds f once and chat_index holds one entry for f.
C7_RegisterIdempotent ==
    \A o \in OriginalMessageId, f \in ForwardLocation :
        LET once == register_forward(tracker, o, f, now)
        IN  /\ \A later \in now..MaxTime : register_forward(once, o, f, later) = once
            /\ Occurrences(once.originals[o], f) = 1
            /\ Cardinality({i \in 1..Len(once.chat_index[f.chat_id]) :
                                once.chat_index[f.chat_id][i][1] = f.message_id}) = 1

\* C7 witness: register_forward has just added a second forward to an
\* original, and the clock can still advance before the second application.
C7_Witness ==
    /\ last.op = "register_forward"
    /\ Len(tracker.originals[LastOriginal]) = 2
    /\ tracker.originals[LastOriginal][2] = LastForward
    /\ now < MaxTime

\* C8: register_forward returns a boolean, true exactly when the original
\* was in read_originals at the time of the call.
C8_RegisterReturnsWasRead ==
    [][last'.op = "register_forward" =>
        LET o == CHOOSE x \in last'.original : TRUE
        IN  /\ last'.ret \in {"true", "false"}
            /\ (last'.ret = "true") <=> (o \in tracker.read_originals)]_vars

\* The forwards of an original before a cleanup that no longer have a
\* forward_index key or chat_index entry after it.
Unindexed(t, f) == f \notin DOMAIN t.forward_index /\ EntriesFor(t, f) = {}

\* C9: cleanup(max_age) purges every original first seen strictly before
\* cutoff = now - max_age from originals, first_seen and read_originals, its
\* forwards from forward_index and chat_index, and leaves no chat_index key
\* with an empty sequence.
C9_CleanupPurges ==
    [][last'.op = "cleanup" =>
        LET cutoff == Cutoff(now, last'.nums[1])
        IN  /\ \A o \in DOMAIN tracker.first_seen :
                  tracker.first_seen[o] < cutoff =>
                    /\ o \notin DOMAIN tracker'.originals
                    /\ o \notin DOMAIN tracker'.first_seen
                    /\ o \notin tracker'.read_originals
                    /\ \A f \in ForwardsOf(tracker, o) : Unindexed(tracker', f)
            /\ \A c \in DOMAIN tracker'.chat_index : tracker'.chat_index[c] /= <<>>]_vars

\* C9 witness: a cleanup has just purged exactly one original, while another
\* original, first seen at or after the cutoff, is still tracked and indexed.
C9_Witness ==
    /\ last.op = "cleanup"
    /\ last.ret = 1
    /\ Cardinality(DOMAIN tracker.originals) = 1
    /\ DOMAIN tracker.forward_index /= {}

\* C10: cleanup(max_age) leaves every original first seen at or after the
\* cutoff as it was: its originals entry, the forward_index and chat_index
\* entries of its forwards, its read status and its first_seen; and with
\* max_age >= now nothing is purged.
C10_CleanupKeepsRecent ==
    [][last'.op = "cleanup" =>
        LET cutoff == Cutoff(now, last'.nums[1])
        IN  /\ \A o \in DOMAIN tracker.first_seen :
                  tracker.first_seen[o] >= cutoff =>
                    /\ o \in DOMAIN tracker'.first_seen
                    /\ tracker'.first_seen[o] = tracker.first_seen[o]
                    /\ (o \in tracker'.read_originals) <=> (o \in tracker.read_originals)
                    /\ (o \in DOMAIN tracker'.originals) <=> (o \in DOMAIN tracker.originals)
                    /\ ForwardsOf(tracker', o) = ForwardsOf(tracker, o)
                    /\ o \in DOMAIN tracker.originals =>
                          tracker'.originals[o] = tracker.originals[o]
                    /\ \A f \in ForwardsOf(tracker, o) :
                          /\ lookup_forward(tracker', f) = lookup_forward(tracker, f)
                          /\ EntriesFor(tracker', f) = EntriesFor(tracker, f)
            /\ last'.nums[1] >= now => tracker' = tracker]_vars

\* C2: a new-message event that registers a forward f of an original already
\* in read_originals leads to a planned MarkForwards action containing f, for
\* that event or a later one.
C2_DuplicateOfReadIsMarked ==
    \A o \in OriginalMessageId, f \in ForwardLocation :
        (/\ last.op = "plan_new_message"
         /\ last.original = {o}
         /\ last.forward = {f}
         /\ o \in tracker.read_originals)
          ~> (/\ last.op \in {"plan_new_message", "plan_read_event"}
              /\ last.ret.kind = "MarkForwards"
              /\ f \in Range(last.ret.forwards))

\* map_as_vec::serialize followed by map_as_vec::deserialize gives the map
\* back, whatever order map.iter() yields its keys in.
MapRoundTrip(m) == \A order \in Orders(DOMAIN m) : VecAsMap(MapAsVecIn(m, order)) = m

\* The Index and what save followed by load makes of it: the same originals,
\* forward_index, read_originals and first_seen, whatever order each map is
\* written in, and a chat_index that is, whatever order the loaded
\* forward_index is walked in, the grouping of forward_index by chat with one
\* entry per forward.
RoundTrip(t) ==
    LET data == Serialize(t)
        parsed == Deserialize(data)
    IN  /\ MapRoundTrip(t.originals)
        /\ MapRoundTrip(t.forward_index)
        /\ MapRoundTrip(t.first_seen)
        /\ parsed = [t EXCEPT !.chat_index = EmptyMap]
        /\ \A order \in Orders(DOMAIN t.forward_index) :
              LET loaded == load(data, order)
              IN  /\ loaded.originals = t.originals
                  /\ loaded.forward_index = t.forward_index
                  /\ loaded.read_originals = t.read_originals
                  /\ loaded.first_seen = t.first_seen
                  /\ DOMAIN loaded.chat_index = {f.chat_id : f \in DOMAIN t.forward_index}
                  /\ \A c \in DOMAIN loaded.chat_index :
                        /\ Range(loaded.chat_index[c]) = DerivedEntries(t, c)
                        /\ Len(loaded.chat_index[c]) = Cardinality(DerivedEntries(t, c))
                  /\ (DOMAIN t.forward_index /= {} => DOMAIN loaded.chat_index /= {})

\* C11: at every point of every run, save followed by load gives back the
\* originals, forward_index, read_originals and first_seen of the Index, and
\* a chat_index rebuilt from forward_index, non-empty whenever forward_index
\* is non-empty.
C11_SaveLoadRoundTrip == [](RoundTrip(tracker))

\* C11 witness: an Index just loaded from its file, holding two forwards in
\* one chat, a read original and a rebuilt chat_index entry of two pairs.
C11_Witness ==
    /\ last.op = "load"
    /\ tracker.read_originals /= {}
    /\ \E c \in DOMAIN tracker.chat_index : Len(tracker.chat_index[c]) = 2

\* A new message that is not a trackable forward: no forward-origin header,
\* or a header missing the source chat or the source message identifier.
Untrackable(message) ==
    \/ message.fwd_header = {}
    \/ \E h \in message.fwd_header : h.from_id = {} \/ h.channel_post = {}

\* C20: planning a new message that is not a trackable forward, a raw update
\* that is not one of the two read-history variants, or any other update
\* kind, returns None and leaves the Index as it was.
C20_UntrackedYieldsNone ==
    LET unchanged == [tracker |-> tracker, action |-> ActionNone]
    IN  /\ \A message \in Message :
              Untrackable(message) =>
                plan_update([kind |-> "NewMessage", message |-> message], tracker, now) = unchanged
        /\ plan_update([kind |-> "Raw", raw |-> [kind |-> "OtherRaw"]], tracker, now) = unchanged
        /\ plan_update([kind |-> "Other"], tracker, now) = unchanged

\* C20 witness: a new message that is no trackable forward has just been
\* planned against an Index that holds a forward; the action is None.
C20_Witness ==
    /\ last.op = "plan_new_message"
    /\ last.forward = {}
    /\ last.ret = ActionNone
    /\ DOMAIN tracker.forward_index /= {}

\* C12: the state file is never partial: whatever step is taken (a step of
\* save, a failed write or rename, the process killed at any point), the file
\* at the state path is complete, and it changes only by the rename of a
\* save, which puts the complete serialization of the Index being saved in
\* its place; every other step leaves it as it was.
C12_SaveCrashAtomic ==
    [][LET before == FileAt(disk, StatePath)
           after == FileAt(disk', StatePath)
       IN  /\ \A file \in after : file.complete
           /\ after /= before =>
                 /\ \E task \in Tasks : task \in index_lock /\ pc[task] = "save_rename"
                 /\ after = {Complete(Serialize(tracker))}
           /\ pc'["main"] = "crashed" => after = before]_vars

\* C12 witness: the process was killed while a save was writing its
\* temporary file; the state file holds the complete earlier save, with a
\* forward in it.
C12_Witness ==
    /\ pc["main"] = "crashed"
    /\ \E tmp \in FileAt(disk, tmp_path(StatePath)) : ~tmp.complete
    /\ \E file \in FileAt(disk, StatePath) : file.complete /\ file.data.forward_index /= <<>>

\* The labels at which the main task holds the marker lock.
PhaseTwo == {"execute_action", "mark_sleep", "mark_call", "executed"}

\* C13: no task holds the tracker lock and the marker lock at once; the
\* marker lock is held by the main task only, and only in phase two of an
\* event: never by the background task, never during the shutdown.
C13_LocksNeverNested ==
    /\ index_lock \cap marker_lock = {}
    /\ marker_lock \subseteq {"main"}
    /\ marker_lock = {"main"} => pc["main"] \in PhaseTwo
    /\ shutdown_log /= <<>> => marker_lock = {}

\* C13 witness: the main task is in phase two, a remote call pending under
\* the marker lock, while the background task holds the tracker lock in a save.
C13_Witness ==
    /\ pc["main"] = "mark_call"
    /\ marker_lock = {"main"}
    /\ pc["background"] = "save_write"
    /\ index_lock = {"background"}

\* The labels at which the main task is suspended at an await.
AwaitPoints ==
    {"select", "lock_tracker", "peer_ref", "lock_marker", "mark_sleep", "mark_call",
     "final_lock", "sync_update_state", "await_pool"}

\* C14: while the main task holds the tracker lock for an inbound event, it
\* is never suspended at an await.
C14_PlannerNeverSuspended ==
    ("main" \in index_lock /\ shutdown_log = <<>>) => pc["main"] \notin AwaitPoints

\* C15: no step of the periodic save that touches a file is taken while the
\* background task holds the tracker lock.
C15_PeriodicSaveIoUnlocked ==
    [][(pc["background"] \in {"save", "save_write", "save_rename"} /\ disk' /= disk)
          => "background" \notin index_lock]_vars

\* C16: while phase two of an event has a remote call pending or sleeps
\* between two calls, the main task does not hold the tracker lock, the
\* background task can take its next step, and the next inbound event can be
\* taken from the stream for planning.
C16_PhaseTwoBlocksNoIndexWork ==
    pc["main"] \in {"mark_sleep", "mark_call"} =>
        /\ "main" \notin index_lock
        /\ ENABLED BackgroundNext
        /\ ENABLED (\E u \in StreamUpdates : MainTakeUpdate(u))

\* C17: in a batch, the mark_read calls made so far are the forwards of the
\* list, one call each, in list order, failing with "no_peer" exactly for a
\* chat with no cached peer; a pending remote call is for the next forward;
\* and when the batch is over every forward of the list has had its call.
C17_BestEffortBatch ==
    \A a \in action :
        a.kind = "MarkForwards" =>
            /\ Len(attempts) <= Len(a.forwards)
            /\ \A i \in 1..Len(attempts) :
                  /\ attempts[i].forward = a.forwards[i]
                  /\ attempts[i].result \in {"no_peer", "ok", "err"}
                  /\ (attempts[i].result = "no_peer")
                        <=> (a.forwards[i].chat_id \notin DOMAIN peer_cache)
            /\ pc["main"] \in {"mark_sleep", "mark_call"} => Len(attempts) < Len(a.forwards)
            /\ pc["main"] = "mark_sleep" => Len(attempts) > 0
            /\ pc["main"] = "executed" => Len(attempts) = Len(a.forwards)

\* C17 witness: a batch of two forwards is over; the first call failed, the
\* second succeeded.
C17_Witness ==
    /\ pc["main"] = "executed"
    /\ \E a \in action : a.kind = "MarkForwards" /\ Len(a.forwards) = 2
    /\ Len(attempts) = 2
    /\ attempts[1].result \in {"no_peer", "err"}
    /\ attempts[2].result = "ok"

\* C18: after startup no step removes or replaces a peer-cache entry;
\* executing CachePeer(c, r, n) adds the entry (r, n) when c is absent and
\* nothing else; no other step changes the peer cache.
C18_PeerCacheFirstWriterWins ==
    [][pc["main"] /= "build_peer_cache" =>
          /\ \A c \in DOMAIN peer_cache :
                c \in DOMAIN peer_cache' /\ peer_cache'[c] = peer_cache[c]
          /\ IF pc["main"] = "execute_action" /\ TheAction.kind = "CachePeer"
               THEN LET a == TheAction
                    IN  /\ DOMAIN peer_cache' = DOMAIN peer_cache \cup {a.chat_id}
                        /\ a.chat_id \notin DOMAIN peer_cache
                              => peer_cache'[a.chat_id] = <<a.peer_ref, a.name>>
               ELSE peer_cache' = peer_cache]_vars

\* C18 witness: CachePeer has just been executed for a chat the startup
\* enumeration had cached under another name, which is still the cached one.
C18_Witness ==
    /\ pc["main"] = "executed"
    /\ \E a \in action :
          /\ a.kind = "CachePeer"
          /\ a.name /= "title"
          /\ a.chat_id \in DOMAIN peer_cache
          /\ peer_cache[a.chat_id][2] = "unnamed"

\* s is a prefix of t.
IsPrefix(s, t) == Len(s) <= Len(t) /\ \A i \in 1..Len(s) : s[i] = t[i]

\* The order of a shutdown whose final save ended with `saved`.
ShutdownOrder(saved) == <<"signal", saved, "sync", "quit", "pool_joined">>

\* C19: once the main loop has taken the shutdown signal, it plans and
\* executes no further event (no update or action is held, the marker lock
\* and the peer cache are left alone, the Index changes by the background
\* cleanup only); what it does is, in this order, one final save (ending
\* well or not), the sync of the update state, the transport's quit and the
\* wait for the transport worker; and it has exited exactly when all of
\* these are done.
C19_ShutdownOrdering ==
    [][(shutdown_log /= <<>> /\ pc'["main"] /= "crashed") =>
          /\ \E saved \in {"save_ok", "save_err"} : IsPrefix(shutdown_log', ShutdownOrder(saved))
          /\ IsPrefix(shutdown_log, shutdown_log')
          /\ (pc'["main"] = "exited") <=> (Len(shutdown_log') = 5)
          /\ update' = {} /\ action' = {} /\ attempts' = <<>> /\ marker_lock' = {}
          /\ peer_cache' = peer_cache
          /\ tracker' /= tracker => pc["background"] = "cleanup"]_vars

\* C19 witness: the process has exited after a shutdown whose final save failed.
C19_Witness ==
    /\ pc["main"] = "exited"
    /\ shutdown_log = ShutdownOrder("save_err")

\* A step of the main task that is not the process being killed: every step
\* of the background task moves its own position.
MainStep == pc'["background"] = pc["background"] /\ pc'["main"] /= "crashed"

\* C21: a step of the main task in phase two (execute_action, from the marker
\* lock taken to the marker lock dropped) leaves every field of the Index as
\* it was; a step of the main task in phase one (plan_update under the
\* tracker lock) makes no mark_read call, starts no remote call and leaves
\* the peer cache as it was.
C21_PhaseSeparation ==
    [][MainStep =>
          /\ pc["main"] \in PhaseTwo => tracker' = tracker
          /\ pc["main"] \in {"plan_update", "peer_ref"} =>
                /\ attempts = <<>> /\ attempts' = <<>>
                /\ pc'["main"] \notin {"mark_sleep", "mark_call"}
                /\ peer_cache' = peer_cache]_vars

\* C21 witness: a read event was planned against an Index holding the
\* original's forwards, which marked the original read, and the MarkForwards
\* action planned for it has been executed with two mark_read calls.
C21_Witness ==
    /\ pc["main"] = "executed"
    /\ Len(attempts) = 2
    /\ tracker.read_originals /= {}
    /\ DOMAIN peer_cache /= {}

\* The labels of the main task inside execute_action, after its first step.
Executing == {"mark_sleep", "mark_call", "executed"}

\* C22: an Action comes into being only as the result of plan_update for the
\* update the main loop holds, and is then held until execute_action has
\* run to its end for it, where it is dropped: while it is held no update is
\* taken or planned and the shutdown signal is not taken; execute_action is
\* entered for it only from the marker lock just taken, and never entered
\* again before the action is dropped; an update is taken only when no
\* action is held.
C22_ActionsExecutedOnce ==
    [][pc'["main"] /= "crashed" =>
          /\ (action = {} /\ action' /= {}) =>
                /\ update /= {}
                /\ pc["main"] \in {"plan_update", "peer_ref"}
                /\ action' = {plan_update(TheUpdate, tracker, now).action}
                /\ update' = {}
                /\ pc'["main"] = "lock_marker"
          /\ action /= {} =>
                /\ update' = {}
                /\ shutdown_log' = <<>>
                /\ action' /= action => (pc["main"] = "executed" /\ action' = {})
          /\ (update = {} /\ update' /= {}) => (action = {} /\ pc["main"] = "select")
          /\ pc'["main"] = "execute_action" =>
                (pc["main"] \in {"lock_marker", "execute_action"} /\ action' = action)
          /\ (MainStep /\ pc["main"] = "execute_action") => pc'["main"] \in Executing
          /\ pc["main"] \in {"mark_sleep", "mark_call"} => pc'["main"] \in Executing
          /\ pc["main"] = "executed" => pc'["main"] \in {"executed", "select"}
          /\ (pc["main"] /= "select" /\ pc'["main"] = "select") =>
                (pc["main"] \in {"executed", "build_peer_cache"} /\ action' = {})]_vars

\* C22 witness: a read event was planned and the MarkForwards action planned
\* for it executed and dropped; the main loop has taken the next update, a
\* new message, and holds no action.
C22_Witness ==
    /\ pc["main"] = "lock_tracker"
    /\ \E u \in update : u.kind = "NewMessage"
    /\ action = {}
    /\ tracker.read_originals /= {}
    /\ \E o \in tracker.read_originals : Len(tracker.originals[o]) >= 2

\* C23: under the runtime's scheduling and the fair tracker Mutex, a save or
\* cleanup tick that is due gets the tracker lock, and having got it runs
\* to its end, however many updates the main loop takes; and an update the
\* main loop has taken is planned, however many ticks fire.
C23_NoStarvation ==
    /\ (pc["background"] \in {"save_lock", "cleanup_lock"})
           ~> (pc["background"] \in {"save", "cleanup"})
    /\ (pc["background"] \in {"save", "save_write", "save_rename", "cleanup"})
           ~> (pc["background"] = "idle")
    /\ (update /= {}) ~> (action /= {})

\* C23 witness: a due save tick has got the tracker lock while the main loop
\* waits for it with an update to plan.
C23_Witness ==
    /\ pc["background"] = "save"
    /\ index_lock = {"background"}
    /\ pc["main"] = "lock_tracker"
    /\ update /= {}

\* C24: no step changes the first_seen of an original that has one before
\* and after it; register_forward gives an original without a first_seen
\* the current time and leaves every other first_seen as it is; and
\* mark_original_read leaves first_seen as it is.
C24_FirstSeenFixed ==
    [][LET before == tracker.first_seen
           after == tracker'.first_seen
       IN  /\ \A o \in DOMAIN before \cap DOMAIN after : after[o] = before[o]
           /\ last'.op = "register_forward" =>
                 /\ DOMAIN after = DOMAIN before \cup last'.original
                 /\ \A o \in last'.original \ DOMAIN before : after[o] = now
           /\ last'.op = "mark_original_read" => after = before]_vars

\* C24 witness: an original first registered at an earlier time has just
\* been registered again with a second forward; its first_seen is still the
\* earlier time.
C24_Witness ==
    /\ last.op = "register_forward"
    /\ \E o \in last.original :
          /\ Len(tracker.originals[o]) = 2
          /\ tracker.first_seen[o] < now

\* A Vec holding no element twice.
NoDuplicates(seq) == \A i, j \in 1..Len(seq) : seq[i] = seq[j] => i = j

\* C25: whatever read event is planned against the Index, a MarkForwards
\* action planned for it names no forward location twice.
C25_NoDuplicateForwards ==
    \A raw \in RawUpdate :
        LET planned == plan_raw_update(raw, tracker).action
        IN  planned.kind = "MarkForwards" => NoDuplicates(planned.forwards)

\* C26: the originals with forwards are the originals with a first_seen, and
\* every original marked read is one of them.
C26_KeysAgree ==
    /\ DOMAIN tracker.originals = DOMAIN tracker.first_seen
    /\ tracker.read_originals \subseteq DOMAIN tracker.first_seen

\* C26 witness: cleanup has just purged one original while another, marked
\* read by a read event, stays in the Index.
C26_Witness ==
    /\ last.op = "cleanup"
    /\ last.ret = 1
    /\ tracker.read_originals /= {}
    /\ DOMAIN tracker.originals /= {}

\* The labels of a task inside save.
Saving == {"save", "save_write", "save_rename"}

\* C27: at most one task is inside save, and it holds the tracker lock; the
\* temporary file it is writing holds its own serialization of the Index,
\* and what it is about to rename into place is all of that serialization.
C27_SavesNeverOverlap ==
    /\ Cardinality({task \in Tasks : pc[task] \in Saving}) <= 1
    /\ \A task \in Tasks :
          /\ pc[task] \in Saving => index_lock = {task}
          /\ pc[task] = "save_write" =>
                FileAt(disk, tmp_path(StatePath)) = {Partial(Serialize(tracker))}
          /\ pc[task] = "save_rename" =>
                FileAt(disk, tmp_path(StatePath)) = {Complete(Serialize(tracker))}

\* C27 witness: the final save is writing the temporary file while a due
\* periodic save waits for the tracker lock, the state file of an earlier
\* periodic save in place.
C27_Witness ==
    /\ pc["main"] = "save_write"
    /\ pc["background"] = "save_lock"
    /\ FileAt(disk, StatePath) /= {}
    /\ DOMAIN tracker.forward_index /= {}

====
